---- MODULE Spec2Model ----
(***************************************************************************)
(* A model of the mozhi arithmetic evaluator (src/basic.py, src/utils.py): *)
(* run(fn, text) = Lexer.make_tokens -> Parser.parse -> Interpreter.visit, *)
(* and the rendering of the diagnostics it returns.                        *)
(*                                                                         *)
(* Characters are one-character strings and a text is a sequence of them.  *)
(* Python offsets are 0-based; TLA+ sequences are 1-based, so text[i] of   *)
(* the source is text[i + 1] here.                                         *)
(*                                                                         *)
(* Position objects are mutable and shared in the source: Token(...,       *)
(* pos_start = self.pos) stores the lexer's own Position object, which     *)
(* Lexer.advance keeps mutating.  A position held by a token, node, value  *)
(* or error is therefore either a private copy (Own) or a reference to the *)
(* lexer's object (Shared), read through Deref at the time of use.         *)
(***************************************************************************)
EXTENDS Integers, Sequences, FiniteSets, TLC

VARIABLES
    text,          \* the source text handed to run
    pc,            \* where run is: "lex", "parser_new", "parse", "interp"; how it ended:
                   \* "done" (returned), "raised" (uncaught exception), "unmodelled"
                   \* (a magnitude left the range the model follows); "shown" (error rendered)
    pos,           \* Lexer.pos, the lexer's one mutable Position object
    current_char,  \* Lexer.current_char
    tokens,        \* the token list make_tokens is building / has returned
    consumed,      \* history: for tokens[i], the offsets [first, last] of the characters it consumed
    created,       \* history: for tokens[i], its span [start, end] as read when it was constructed
    tok_ind,       \* Parser.tok_ind
    current_tok,   \* Parser.current_tok
    advances,      \* history: number of Parser.advance calls made inside Parser.parse
    ast,           \* the ParseResult parse returned
    result,        \* what run returned or how it ended: [value, error, raised]
    shown          \* the text Error.as_string rendered for the returned error

vars == <<text, pc, pos, current_char, tokens, consumed, created,
          tok_ind, current_tok, advances, ast, result, shown>>

----------------------------------------------------------------------------
(* Bounds of the model *)

\* longest text enumerated exhaustively over Alphabet
MaxLen == 3
\* largest numerator / denominator the model's exact arithmetic follows
MaxMag == 4096
\* longest context chain of a synthetic RunTimeError
MaxFrames == 3
\* largest line / column of a synthetic span
MaxCol == 3

----------------------------------------------------------------------------
(* Characters, texts *)

\* Lexer.current_char = None
NoChar == "<None>"

DigitSeq == <<"0", "1", "2", "3", "4", "5", "6", "7", "8", "9">>
DIGITS == {DigitSeq[i] : i \in 1..10}
DigitVal(c) == (CHOOSE i \in 1..10 : DigitSeq[i] = c) - 1

Alphabet == {"0", "2", "+", "-", "*", "/", "^", "(", ")", ".", " ", "@"}

Examples ==
    { <<"2", "+", "3", "*", "4">>,
      <<"(", "2", "+", "3", ")", "*", "4">>,
      <<"2", "^", "3", "^", "2">>,
      <<"-", "2", "^", "2">>,
      <<"5", "/", "0">>,
      <<"5", "/", "0", "+", "1">>,
      <<"(", "5", "/", "0", ")">>,
      <<"(", "2", "+", "3">>,
      <<"2", "+", "@">>,
      <<".", "5">>,
      <<"1", ".", "5", "*", "2">>,
      <<"1", ".", "2", ".", "3">>,
      <<"0", "^", "-", "1">>,
      <<"2", "^", "-", "1">>,
      <<"8", "/", "2", "/", "2">>,
      <<"7", "-", "2", "-", "1">>,
      <<"2", "*", "(", "3", "-", "1", ")">>,
      <<"2", "\t", "+", " ", "3">>,
      <<"2", "\n", "3">>,
      <<"2", "+", "\t", "@">>,
      <<"1", "/", "(", "2", "-", "2", ")">>,
      <<"\t", ")">>,
      <<"2", "^", "9", "9">> }

Texts == (UNION {[1..n -> Alphabet] : n \in 0..MaxLen}) \cup Examples

----------------------------------------------------------------------------
(* Position *)

Position(ind, ln, col) == [ind |-> ind, ln |-> ln, col |-> col]

\* Position.advance(current_char), on the value of the object
PosAdvance(p, ch) ==
    IF ch = "\n"
    THEN [ind |-> p.ind + 1, ln |-> p.ln + 1, col |-> 0]
    ELSE [ind |-> p.ind + 1, ln |-> p.ln, col |-> p.col + 1]

\* a private Position object (Position.copy, or one built for one holder)
Own(p) == [shared |-> FALSE, ind |-> p.ind, ln |-> p.ln, col |-> p.col]
\* a reference to the lexer's Position object (self.pos passed uncopied)
Shared == [shared |-> TRUE, ind |-> 0, ln |-> 0, col |-> 0]
\* no position (None)
NoPos == [shared |-> FALSE, ind |-> -1, ln |-> -1, col |-> -1]

\* the value read now through a held position
Deref(r) == IF r.shared THEN pos ELSE Position(r.ind, r.ln, r.col)

----------------------------------------------------------------------------
(* Tokens *)

TT_INT == "INT"
TT_FLOAT == "FLOAT"
TT_PLUS == "PLUS"
TT_MINUS == "MINUS"
TT_MULT == "MULT"
TT_DIV == "DIV"
TT_EXP == "EXP"
TT_LPAREN == "LPAREN"
TT_RPAREN == "RPAREN"
TT_EOF == "EOF"

\* numeric magnitudes are exact rationals num/den in lowest terms, den > 0;
\* flt tells a Python float from a Python int
RECURSIVE Gcd(_, _)
Gcd(a, b) == IF b = 0 THEN a ELSE Gcd(b, a % b)
Abs(a) == IF a < 0 THEN -a ELSE a
Rat(n, d, f) ==
    LET g == Gcd(Abs(n), Abs(d))
        s == IF d < 0 THEN -1 ELSE 1
    IN [num |-> s * (n \div g), den |-> s * (d \div g), flt |-> f]
NoValue == [num |-> 0, den |-> 0, flt |-> FALSE]

\* Token.__init__ with pos_start only: pos_end = pos_start.copy().advance()
TokenAt(type, start) ==
    [type |-> type, value |-> NoValue, pos_start |-> start,
     pos_end |-> Own(PosAdvance(Deref(start), NoChar))]
\* Token.__init__ with pos_start and pos_end
TokenSpan(type, value, start, end) ==
    [type |-> type, value |-> value, pos_start |-> start, pos_end |-> end]

OpType(c) ==
    CASE c = "+" -> TT_PLUS
      [] c = "-" -> TT_MINUS
      [] c = "*" -> TT_MULT
      [] c = "/" -> TT_DIV
      [] c = "^" -> TT_EXP
      [] c = "(" -> TT_LPAREN
      [] c = ")" -> TT_RPAREN
OpChars == {"+", "-", "*", "/", "^", "(", ")"}

\* the span of a token as read now
SpanOf(t) == [start |-> Deref(t.pos_start).ind, end |-> Deref(t.pos_end).ind]

----------------------------------------------------------------------------
(* Lexer *)

CharAt(i) == IF i < Len(text) THEN text[i + 1] ELSE NoChar

\* a make_number loop over DIGITS alone, which stops at the first '.'
RECURSIVE NumberEnd_DigitsOnly(_, _)
NumberEnd_DigitsOnly(i, points) ==
    IF CharAt(i) \in DIGITS THEN NumberEnd_DigitsOnly(i + 1, points) ELSE i
\* make_number's loop from offset i with point_count points: the offset it stops at
RECURSIVE NumberEnd(_, _)
NumberEnd(i, points) ==
    LET c == CharAt(i) IN
    IF c = NoChar \/ c \notin (DIGITS \cup {"."}) THEN i
    ELSE IF c = "." THEN (IF points = 1 THEN i ELSE NumberEnd(i + 1, points + 1))
    ELSE NumberEnd(i + 1, points)

\* num_str, the characters make_number accumulated from offset i up to offset j
NumStr(i, j) == SubSeq(text, i + 1, j)
PointCount(s) == Cardinality({k \in 1..Len(s) : s[k] = "."})

\* int(num_str)
RECURSIVE IntOf(_)
IntOf(s) ==
    IF s = <<>> THEN 0
    ELSE IntOf(SubSeq(s, 1, Len(s) - 1)) * 10 + DigitVal(s[Len(s)])

RECURSIVE Pow10(_)
Pow10(k) == IF k = 0 THEN 1 ELSE 10 * Pow10(k - 1)

\* float(num_str) for digits with one '.', as an exact rational
FloatOf(s) ==
    LET d == CHOOSE k \in 1..Len(s) : s[k] = "."
        whole == SubSeq(s, 1, d - 1)
        frac == SubSeq(s, d + 1, Len(s))
    IN Rat(IntOf(whole) * Pow10(Len(frac)) + IntOf(frac), Pow10(Len(frac)), TRUE)

\* the lexer's position after n calls of Lexer.advance from p
RECURSIVE AdvanceN(_, _)
AdvanceN(p, n) ==
    IF n = 0 THEN p ELSE AdvanceN(PosAdvance(p, CharAt(p.ind)), n - 1)

\* Number.__init__: set_pos() and set_context() leave them None
Number(v) ==
    [num |-> v.num, den |-> v.den, flt |-> v.flt,
     pos_start |-> NoPos, pos_end |-> NoPos, context |-> <<>>]
NoNumber == Number(NoValue)

NoError == [kind |-> "None", pos_start |-> NoPos, pos_end |-> NoPos,
            details |-> "", context |-> <<>>]
IllegalCharError(start, end, details) ==
    [kind |-> "Illegal Charecter", pos_start |-> start, pos_end |-> end,
     details |-> details, context |-> <<>>]
IllegalSyntaxError(start, end, details) ==
    [kind |-> "Illegal Syntax", pos_start |-> start, pos_end |-> end,
     details |-> details, context |-> <<>>]
RunTimeError(start, end, details, context) ==
    [kind |-> "Runtime Error", pos_start |-> start, pos_end |-> end,
     details |-> details, context |-> context]

NoNode == [kind |-> "None"]
NoAst == [node |-> NoNode, error |-> NoError]
NoToken == [type |-> "None", value |-> NoValue, pos_start |-> NoPos, pos_end |-> NoPos]

\* Lexer.advance
LexerAdvance ==
    /\ pos' = PosAdvance(pos, current_char)
    /\ current_char' = CharAt(pos.ind + 1)

\* make_tokens, one round of the loop: a space or tab is skipped
LexSkip ==
    /\ pc = "lex"
    /\ current_char \in {" ", "\t"}
    /\ LexerAdvance
    /\ UNCHANGED <<text, pc, tokens, consumed, created, tok_ind, current_tok,
                   advances, ast, result, shown>>

\* make_tokens, one round of the loop: a digit starts make_number
LexNumber ==
    /\ pc = "lex"
    /\ current_char \in DIGITS
    /\ LET i == pos.ind
           j == NumberEnd(i, 0)
           s == NumStr(i, j)
           tok == IF PointCount(s) = 0
                  THEN TokenSpan(TT_INT, Rat(IntOf(s), 1, FALSE), Own(pos), Shared)
                  ELSE TokenSpan(TT_FLOAT, FloatOf(s), Own(pos), Shared)
       IN /\ pos' = AdvanceN(pos, j - i)
          /\ current_char' = CharAt(j)
          /\ tokens' = Append(tokens, tok)
          /\ consumed' = Append(consumed, [first |-> i, last |-> j - 1])
          /\ created' = Append(created, [start |-> i, end |-> j])
    /\ UNCHANGED <<text, pc, tok_ind, current_tok, advances, ast, result, shown>>

\* make_tokens, one round of the loop: one of + - * / ^ ( )
LexOp ==
    /\ pc = "lex"
    /\ current_char \in OpChars
    /\ LET tok == TokenAt(OpType(current_char), Shared)
       IN /\ tokens' = Append(tokens, tok)
          /\ consumed' = Append(consumed, [first |-> pos.ind, last |-> pos.ind])
          /\ created' = Append(created, SpanOf(tok))
    /\ LexerAdvance
    /\ UNCHANGED <<text, pc, tok_ind, current_tok, advances, ast, result, shown>>

\* an else branch that returns the tokens scanned so far alongside the error
LexIllegal_KeepsTokens ==
    /\ pc = "lex"
    /\ current_char \notin ({NoChar, " ", "\t"} \cup DIGITS \cup OpChars)
    /\ LexerAdvance
    /\ result' = [value |-> NoNumber,
                  error |-> IllegalCharError(Own(pos), Shared, current_char),
                  raised |-> "None"]
    /\ pc' = "done"
    /\ UNCHANGED <<text, tokens, consumed, created, tok_ind, current_tok,
                   advances, ast, shown>>
\* make_tokens, the else branch: return [], IllegalCharError; run returns None, err
LexIllegal ==
    /\ pc = "lex"
    /\ current_char \notin ({NoChar, " ", "\t"} \cup DIGITS \cup OpChars)
    /\ LexerAdvance
    /\ tokens' = <<>>
    /\ consumed' = <<>>
    /\ created' = <<>>
    /\ result' = [value |-> NoNumber,
                  error |-> IllegalCharError(Own(pos), Shared, current_char),
                  raised |-> "None"]
    /\ pc' = "done"
    /\ UNCHANGED <<text, tok_ind, current_tok, advances, ast, shown>>

\* make_tokens, after the loop: append the EOF token and return tokens, None
LexEOF ==
    /\ pc = "lex"
    /\ current_char = NoChar
    /\ LET tok == TokenAt(TT_EOF, Shared)
       IN /\ tokens' = Append(tokens, tok)
          /\ consumed' = Append(consumed, [first |-> pos.ind, last |-> pos.ind - 1])
          /\ created' = Append(created, SpanOf(tok))
    /\ pc' = "parser_new"
    /\ UNCHANGED <<text, pos, current_char, tok_ind, current_tok, advances,
                   ast, result, shown>>

----------------------------------------------------------------------------
(* Nodes *)

NumberNode(tok) ==
    [kind |-> "NumberNode", tok |-> tok,
     pos_start |-> tok.pos_start, pos_end |-> tok.pos_end]
BinaryOpNode(left_node, op_token, right_node) ==
    [kind |-> "BinaryOpNode", left_node |-> left_node, op_token |-> op_token,
     right_node |-> right_node,
     pos_start |-> left_node.pos_start, pos_end |-> right_node.pos_end]
UnaryOpNode(op_token, node) ==
    [kind |-> "UnaryOpNode", op_token |-> op_token, node |-> node,
     pos_start |-> op_token.pos_start, pos_end |-> node.pos_end]

----------------------------------------------------------------------------
(* Parser.  The parser's own state is p = [tok_ind, cur, hist]: tok_ind and  *)
(* current_tok, and the history of the values Parser.advance gave them.    *)
(* Each grammar method returns its ParseResult together with the parser    *)
(* state it leaves: [node, error, p].                                      *)

IsError(e) == e.kind # "None"

\* Parser.advance
ParserAdvanceOn(p) ==
    LET ti == p.tok_ind + 1
        cur == IF ti < Len(tokens) THEN tokens[ti + 1] ELSE p.cur
    IN [tok_ind |-> ti, cur |-> cur,
        hist |-> Append(p.hist, [tok_ind |-> ti, cur |-> cur])]

\* ParseResult.success / ParseResult.failure on a fresh ParseResult
Success(node, p) == [node |-> node, error |-> NoError, p |-> p]
Failure(error, p) == [node |-> NoNode, error |-> error, p |-> p]

RECURSIVE atom(_), factor(_), bin_op(_, _, _, _), bin_op_loop(_, _, _, _), Call(_, _)

\* an atom that advances before looking at the token
atom_AlwaysAdvances(p) ==
    LET tok == p.cur
        q == ParserAdvanceOn(p)
    IN IF tok.type \in {TT_INT, TT_FLOAT} THEN Success(NumberNode(tok), q)
       ELSE IF tok.type = TT_LPAREN
       THEN LET e == Call("expr", q) IN
            IF IsError(e.error) THEN Failure(e.error, e.p)
            ELSE IF e.p.cur.type = TT_RPAREN
            THEN Success(e.node, ParserAdvanceOn(e.p))
            ELSE Failure(IllegalSyntaxError(tok.pos_start, tok.pos_end,
                             "Expected int, float, '+', '-', or '('"), e.p)
       ELSE Failure(IllegalSyntaxError(tok.pos_start, tok.pos_end,
                        "Expected int, float, '+', '-', or '('"), q)
\* Parser.atom.  The else branch of the '(' case calls res.failure without
\* returning it, so control falls through to the final return, which
\* overwrites res.error.
atom(p) ==
    LET tok == p.cur
        fallthrough == Failure(IllegalSyntaxError(tok.pos_start, tok.pos_end,
                                   "Expected int, float, '+', '-', or '('"), p)
    IN IF tok.type \in {TT_INT, TT_FLOAT}
       THEN Success(NumberNode(tok), ParserAdvanceOn(p))
       ELSE IF tok.type = TT_LPAREN
       THEN LET e == Call("expr", ParserAdvanceOn(p)) IN
            IF IsError(e.error) THEN Failure(e.error, e.p)
            ELSE IF e.p.cur.type = TT_RPAREN
            THEN Success(e.node, ParserAdvanceOn(e.p))
            ELSE LET res == Failure(IllegalSyntaxError(e.p.cur.pos_start,
                                        e.p.cur.pos_end, "Expected ')'"), e.p)
                 IN [res EXCEPT !.error = IllegalSyntaxError(tok.pos_start, tok.pos_end,
                                              "Expected int, float, '+', '-', or '('")]
       ELSE fallthrough

\* Parser.factor
factor(p) ==
    LET tok == p.cur IN
    IF tok.type \in {TT_PLUS, TT_MINUS}
    THEN LET f == factor(ParserAdvanceOn(p)) IN
         IF IsError(f.error) THEN Failure(f.error, f.p)
         ELSE Success(UnaryOpNode(tok, f.node), f.p)
    ELSE Call("power", p)

\* Parser.bin_op, the while loop
bin_op_loop(left, ops, func_b, p) ==
    IF p.cur.type \in ops
    THEN LET op_tok == p.cur
             right == Call(func_b, ParserAdvanceOn(p))
         IN IF IsError(right.error) THEN Failure(right.error, right.p)
            ELSE bin_op_loop(BinaryOpNode(left, op_tok, right.node), ops, func_b, right.p)
    ELSE Success(left, p)

\* Parser.bin_op
bin_op(func_a, ops, func_b, p) ==
    LET left == Call(func_a, p) IN
    IF IsError(left.error) THEN Failure(left.error, left.p)
    ELSE bin_op_loop(left.node, ops, func_b, left.p)

\* a power tier whose right operand is an atom (left-associative '^', no unary exponent)
power_LeftAssoc(p) == bin_op("atom", {TT_EXP}, "atom", p)
\* Parser.power
power(p) == bin_op("atom", {TT_EXP}, "factor", p)
\* Parser.term
term(p) == bin_op("factor", {TT_MULT, TT_DIV}, "factor", p)
\* Parser.expr
expr(p) == bin_op("term", {TT_PLUS, TT_MINUS}, "term", p)

\* a bound method passed as func_a / func_b, or called by name
Call(f, p) ==
    CASE f = "atom" -> atom(p)
      [] f = "factor" -> factor(p)
      [] f = "power" -> power(p)
      [] f = "term" -> term(p)
      [] f = "expr" -> expr(p)

\* Parser.parse
parse(p) ==
    LET res == expr(p) IN
    IF ~IsError(res.error) /\ res.p.cur.type # TT_EOF
    THEN [res EXCEPT !.error = IllegalSyntaxError(res.p.cur.pos_start,
                                   res.p.cur.pos_end, "Expected '+', '-', '*' or '/'")]
    ELSE res

\* Parser(tokens): tok_ind = -1, then advance()
NewParser(toks) ==
    [tok_ind |-> 0, cur |-> IF 0 < Len(toks) THEN toks[1] ELSE NoToken, hist |-> <<>>]

\* parser.parse() on the tokens the lexer returned
ParseRun == parse(NewParser(tokens))

\* run: parser = Parser(tokens)
ParserNew ==
    /\ pc = "parser_new"
    /\ tok_ind' = NewParser(tokens).tok_ind
    /\ current_tok' = NewParser(tokens).cur
    /\ pc' = "parse"
    /\ UNCHANGED <<text, pos, current_char, tokens, consumed, created,
                   advances, ast, result, shown>>

\* the next Parser.advance call that parser.parse() makes
ParserAdvance ==
    /\ pc = "parse"
    /\ LET hist == ParseRun.p.hist IN
       /\ advances < Len(hist)
       /\ tok_ind' = hist[advances + 1].tok_ind
       /\ current_tok' = hist[advances + 1].cur
    /\ advances' = advances + 1
    /\ UNCHANGED <<text, pc, pos, current_char, tokens, consumed, created,
                   ast, result, shown>>

\* parser.parse() returns; run returns None, ast.error on an error
ParseReturn ==
    /\ pc = "parse"
    /\ LET res == ParseRun IN
       /\ advances = Len(res.p.hist)
       /\ ast' = [node |-> res.node, error |-> res.error]
       /\ IF IsError(res.error)
          THEN /\ result' = [value |-> NoNumber, error |-> res.error, raised |-> "None"]
               /\ pc' = "done"
          ELSE /\ result' = result
               /\ pc' = "interp"
    /\ UNCHANGED <<text, pos, current_char, tokens, consumed, created,
                   tok_ind, current_tok, advances, shown>>

----------------------------------------------------------------------------
(* Values.  A Number carries an exact rational magnitude; a magnitude that  *)
(* leaves the range the model follows (MaxMag), or that is irrational (a    *)
(* non-integral exponent), ends the run in the model as "OutOfModel".       *)

\* Context(display_name, parent, parent_entry_pos), as the chain of frames
\* from the context itself out to the root (parent = the rest of the chain)
Context(display_name, parent, parent_entry_pos) ==
    <<[display_name |-> display_name, parent_entry_pos |-> parent_entry_pos]>> \o parent

set_pos(n, pos_start, pos_end) == [n EXCEPT !.pos_start = pos_start, !.pos_end = pos_end]
set_context(n, context) == [n EXCEPT !.context = context]

InRange(v) == Abs(v.num) <= MaxMag /\ Abs(v.den) <= MaxMag
IsZero(v) == v.num = 0
IsIntegral(v) == v.den = 1

\* what a Number method hands back: (result, None), (None, error), or an exception
Ok(n) == [value |-> n, error |-> NoError, raised |-> "None"]
Err(e) == [value |-> NoNumber, error |-> e, raised |-> "None"]
Raise(name) == [value |-> NoNumber, error |-> NoError, raised |-> name]
Within(v, context) ==
    IF InRange(v) THEN Ok(set_context(Number(v), context)) ELSE Raise("OutOfModel")

\* Number.added_to
added_to(self, other) ==
    Within(Rat(self.num * other.den + other.num * self.den, self.den * other.den,
               self.flt \/ other.flt), self.context)
\* Number.subbed_by
subbed_by(self, other) ==
    Within(Rat(self.num * other.den - other.num * self.den, self.den * other.den,
               self.flt \/ other.flt), self.context)
\* Number.multed_by
multed_by(self, other) ==
    Within(Rat(self.num * other.num, self.den * other.den,
               self.flt \/ other.flt), self.context)
\* Number.dived_by
dived_by(self, other) ==
    IF IsZero(other)
    THEN Err(RunTimeError(other.pos_start, other.pos_end, "Division by Zero", self.context))
    ELSE Within(Rat(self.num * other.den, self.den * other.num, TRUE), self.context)

\* b ** n for a natural n, by repeated multiplication, given up once out of range
RECURSIVE PowAcc(_, _, _)
PowAcc(acc, b, n) ==
    IF n = 0 \/ ~InRange(acc) THEN acc
    ELSE PowAcc(Rat(acc.num * b.num, acc.den * b.den, FALSE), b, n - 1)
PowNat(b, n) ==
    IF n = 0 THEN Rat(1, 1, FALSE)
    ELSE IF b.num = 0 THEN Rat(0, 1, FALSE)
    ELSE IF Abs(b.num) = 1 /\ b.den = 1
    THEN Rat(IF b.num = -1 /\ n % 2 = 1 THEN -1 ELSE 1, 1, FALSE)
    ELSE PowAcc(Rat(1, 1, FALSE), b, n)

\* Number.powerd_by: Python's **, which raises ZeroDivisionError for a zero
\* base and a negative exponent
powerd_by(self, other) ==
    IF ~IsIntegral(other) THEN Raise("OutOfModel")
    ELSE IF other.num >= 0
    THEN LET r == PowNat(self, other.num)
         IN Within([r EXCEPT !.flt = self.flt \/ other.flt], self.context)
    ELSE IF IsZero(self) THEN Raise("ZeroDivisionError")
    ELSE LET r == PowNat(self, -other.num)
         IN IF ~InRange(r) THEN Raise("OutOfModel")
            ELSE Within(Rat(r.den, r.num, TRUE), self.context)

----------------------------------------------------------------------------
(* Interpreter *)

RECURSIVE visit(_, _)

\* Interpreter.visit_NumberNode
visit_NumberNode(node, context) ==
    IF ~InRange(node.tok.value) THEN Raise("OutOfModel")
    ELSE Ok(set_pos(set_context(Number(node.tok.value), context),
                    node.pos_start, node.pos_end))

\* Interpreter.visit_BinaryOpNode
visit_BinaryOpNode(node, context) ==
    LET l == visit(node.left_node, context) IN
    IF l.raised # "None" \/ IsError(l.error) THEN l
    ELSE LET r == visit(node.right_node, context) IN
    IF r.raised # "None" \/ IsError(r.error) THEN r
    ELSE LET left == l.value
             right == r.value
             t == node.op_token.type
             out == CASE t = TT_PLUS -> added_to(left, right)
                      [] t = TT_MINUS -> subbed_by(left, right)
                      [] t = TT_MULT -> multed_by(left, right)
                      [] t = TT_DIV -> dived_by(left, right)
                      [] t = TT_EXP -> powerd_by(left, right)
         IN IF out.raised # "None" \/ IsError(out.error) THEN out
            ELSE Ok(set_pos(out.value, node.pos_start, node.pos_end))

\* Interpreter.visit_UnaryOpNode
visit_UnaryOpNode(node, context) ==
    LET n == visit(node.node, context) IN
    IF n.raised # "None" \/ IsError(n.error) THEN n
    ELSE LET out == IF node.op_token.type = TT_MINUS
                    THEN multed_by(n.value, Number(Rat(-1, 1, FALSE)))
                    ELSE Ok(n.value)
         IN IF out.raised # "None" \/ IsError(out.error) THEN out
            ELSE Ok(set_pos(out.value, node.pos_start, node.pos_end))

\* Interpreter.visit
visit(node, context) ==
    CASE node.kind = "NumberNode" -> visit_NumberNode(node, context)
      [] node.kind = "BinaryOpNode" -> visit_BinaryOpNode(node, context)
      [] node.kind = "UnaryOpNode" -> visit_UnaryOpNode(node, context)

\* run: context = Context('<program>')
ProgramContext == Context("<program>", <<>>, NoPos)

\* run: result = interpreter.visit(ast.node, context); return result.value, result.error
Interpret ==
    /\ pc = "interp"
    /\ result' = visit(ast.node, ProgramContext)
    /\ pc' = CASE result'.raised = "None" -> "done"
               [] result'.raised = "OutOfModel" -> "unmodelled"
               [] OTHER -> "raised"
    /\ UNCHANGED <<text, pos, current_char, tokens, consumed, created,
                   tok_ind, current_tok, advances, ast, shown>>

----------------------------------------------------------------------------
(* Rendering: utils.arrow_string, Error.as_string, RunTimeError.as_string   *)

\* str.rfind(ch, lo, hi) and str.find(ch, lo) on 0-based offsets, -1 if absent
RFind(t, ch, lo, hi) ==
    LET hits == {i \in lo..(hi - 1) : i < Len(t) /\ t[i + 1] = ch}
    IN IF hits = {} THEN -1 ELSE CHOOSE i \in hits : \A j \in hits : j <= i
Find(t, ch, lo) ==
    LET hits == {i \in lo..(Len(t) - 1) : t[i + 1] = ch}
    IN IF hits = {} THEN -1 ELSE CHOOSE i \in hits : \A j \in hits : i <= j
\* t[a:b]
Slice(t, a, b) == SubSeq(t, a + 1, IF b < Len(t) THEN b ELSE Len(t))
\* ch * n
Repeat(ch, n) == [k \in 1..n |-> ch]
Max(a, b) == IF a >= b THEN a ELSE b
\* str.replace(ch, '')
RECURSIVE Without(_, _)
Without(t, ch) ==
    IF t = <<>> THEN <<>>
    ELSE (IF Head(t) = ch THEN <<>> ELSE <<Head(t)>>) \o Without(Tail(t), ch)

\* arrow_string, the for loop from round i on
RECURSIVE arrow_loop(_, _, _, _, _, _, _)
arrow_loop(t, pos_start, pos_end, i, ind_start, ind_end, res) ==
    LET line_count == pos_end.ln - pos_start.ln + 1 IN
    IF i >= line_count THEN res
    ELSE LET line == Slice(t, ind_start, ind_end)
             col_start == IF i = 0 THEN pos_start.col ELSE 0
             col_end == IF i = line_count - 1 THEN pos_end.col ELSE Len(line) - 1
             res1 == res \o line \o <<"\n">>
                         \o Repeat(" ", col_start) \o Repeat("^", col_end - col_start)
             next_end == Find(t, "\n", ind_end + 1)
         IN arrow_loop(t, pos_start, pos_end, i + 1, ind_end,
                       IF next_end < 0 THEN Len(t) ELSE next_end, res1)

\* utils.arrow_string
arrow_string(t, pos_start, pos_end) ==
    LET ind_start == Max(RFind(t, "\n", 0, pos_start.ind), 0)
        first_end == Find(t, "\n", ind_start + 1)
        ind_end == IF first_end < 0 THEN Len(t) ELSE first_end
    IN Without(arrow_loop(t, pos_start, pos_end, 0, ind_start, ind_end, <<>>), "\t")

\* RunTimeError.generate_traceback, the while loop: res += line + res
RECURSIVE traceback_loop(_, _, _)
traceback_loop(res, p, ctx) ==
    IF ctx = <<>> THEN res
    ELSE traceback_loop(res \o <<[line |-> p.ln + 1, name |-> Head(ctx).display_name]>> \o res,
                        Deref(Head(ctx).parent_entry_pos), Tail(ctx))

\* RunTimeError.generate_traceback: the frame lines under the header line
generate_traceback(e) == traceback_loop(<<>>, Deref(e.pos_start), e.context)

\* Error.as_string and RunTimeError.as_string: the parts of the rendered text
as_string(e) ==
    [header |-> IF e.kind = "Runtime Error"
                THEN "Traceback (most recent call last):" ELSE "",
     traceback |-> IF e.kind = "Runtime Error" THEN generate_traceback(e) ELSE <<>>,
     name |-> e.kind,
     details |-> e.details,
     line |-> IF e.kind = "Runtime Error" THEN 0 ELSE Deref(e.pos_start).ln + 1,
     excerpt |-> arrow_string(text, Deref(e.pos_start), Deref(e.pos_end))]

NotShown == [header |-> "", traceback |-> <<>>, name |-> "", details |-> "",
             line |-> 0, excerpt |-> <<>>]

\* the caller renders the error run returned
Render ==
    /\ pc = "done"
    /\ IsError(result.error)
    /\ shown' = as_string(result.error)
    /\ pc' = "shown"
    /\ UNCHANGED <<text, pos, current_char, tokens, consumed, created,
                   tok_ind, current_tok, advances, ast, result>>

----------------------------------------------------------------------------

\* run(fn, text) after Lexer(fn, text): pos = Position(-1, 0, -1) advanced once
Init ==
    /\ text \in Texts
    /\ pc = "lex"
    /\ pos = Position(0, 0, 0)
    /\ current_char = CharAt(0)
    /\ tokens = <<>>
    /\ consumed = <<>>
    /\ created = <<>>
    /\ tok_ind = -1
    /\ current_tok = NoToken
    /\ advances = 0
    /\ ast = NoAst
    /\ result = [value |-> NoNumber, error |-> NoError, raised |-> "None"]
    /\ shown = NotShown

Next ==
    \/ LexSkip
    \/ LexNumber
    \/ LexOp
    \/ LexIllegal
    \/ LexEOF
    \/ ParserNew
    \/ ParserAdvance
    \/ ParseReturn
    \/ Interpret
    \/ Render

Spec == Init /\ [][Next]_vars

----------------------------------------------------------------------------
(* Rendering of errors built directly (not by run): any span over a text,   *)
(* and a RunTimeError whose context chain has up to MaxFrames frames.       *)

RenderTexts ==
    { <<"2", "+", "3">>,
      <<"2", "\t", "+">>,
      <<"1", "\n", "2", "3">>,
      <<>> }

\* the Position a scan of t reaches at offset i
RECURSIVE PosAt(_, _)
PosAt(t, i) ==
    IF i = 0 THEN Position(0, 0, 0)
    ELSE PosAdvance(PosAt(t, i - 1), IF i - 1 < Len(t) THEN t[i] ELSE NoChar)

FrameNames == {"f", "g"}

\* the context chains of n frames, innermost first, rooted at <program>
RECURSIVE Chains(_, _)
Chains(t, n) ==
    IF n = 1 THEN {Context("<program>", <<>>, NoPos)}
    ELSE {Context(name, parent, Own(PosAt(t, i))) :
              name \in FrameNames, parent \in Chains(t, n - 1), i \in {0, Len(t)}}

InitRender ==
    /\ text \in RenderTexts
    /\ pc = "done"
    /\ pos = PosAt(text, Len(text))
    /\ current_char = NoChar
    /\ tokens = <<>>
    /\ consumed = <<>>
    /\ created = <<>>
    /\ tok_ind = -1
    /\ current_tok = NoToken
    /\ advances = 0
    /\ ast = NoAst
    /\ \E i \in 0..MaxCol, j \in 0..MaxCol :
         /\ i <= Len(text) + 1
         /\ j <= Len(text) + 1
         /\ \/ result = [value |-> NoNumber, raised |-> "None",
                         error |-> IllegalSyntaxError(Own(PosAt(text, i)),
                                       Own(PosAt(text, j)), "Expected ')'")]
            \/ \E n \in 1..MaxFrames : \E ctx \in Chains(text, n) :
                 result = [value |-> NoNumber, raised |-> "None",
                           error |-> RunTimeError(Own(PosAt(text, i)),
                                         Own(PosAt(text, j)), "Division by Zero", ctx)]
    /\ shown = NotShown

NextRender == Render

SpecRender == InitRender /\ [][NextRender]_vars

----------------------------------------------------------------------------
(* A reference evaluator, independent of the parser: it works on the token  *)
(* sequence by splitting at the operator that binds loosest.  '+' and '-'   *)
(* (binary: preceded by the end of an operand) split at their last          *)
(* occurrence outside parentheses, then '*' and '/' at their last, then a   *)
(* leading unary sign applies to all that follows, then '^' splits at its   *)
(* first occurrence.  Results: "val" (a value), "invalid" (not an           *)
(* expression), "undef" (division by zero, zero to a negative power),       *)
(* "out" (outside the range the model follows).                             *)

RefVal(v) == [kind |-> IF InRange(v) THEN "val" ELSE "out", num |-> v.num, den |-> v.den]
RefNone(kind) == [kind |-> kind, num |-> 0, den |-> 0]

RefDepth(ts, i) ==
    Cardinality({k \in 1..(i - 1) : ts[k].type = TT_LPAREN})
      - Cardinality({k \in 1..(i - 1) : ts[k].type = TT_RPAREN})
RefBalanced(ts) ==
    /\ \A i \in 1..Len(ts) : RefDepth(ts, i) >= 0
    /\ RefDepth(ts, Len(ts) + 1) = 0
RefOperandEnd(t) == t.type \in {TT_INT, TT_FLOAT, TT_RPAREN}
RefTop(ts, types) ==
    {i \in 2..Len(ts) : ts[i].type \in types /\ RefDepth(ts, i) = 0
                         /\ RefOperandEnd(ts[i - 1])}
SetMax(S) == CHOOSE i \in S : \A j \in S : j <= i
SetMin(S) == CHOOSE i \in S : \A j \in S : i <= j

RefApply(type, a, b) ==
    IF a.kind = "invalid" \/ b.kind = "invalid" THEN RefNone("invalid")
    ELSE IF a.kind # "val" THEN a
    ELSE IF b.kind # "val" THEN b
    ELSE CASE type = TT_PLUS -> RefVal(Rat(a.num * b.den + b.num * a.den, a.den * b.den, FALSE))
           [] type = TT_MINUS -> RefVal(Rat(a.num * b.den - b.num * a.den, a.den * b.den, FALSE))
           [] type = TT_MULT -> RefVal(Rat(a.num * b.num, a.den * b.den, FALSE))
           [] type = TT_DIV -> IF b.num = 0 THEN RefNone("undef")
                               ELSE RefVal(Rat(a.num * b.den, a.den * b.num, FALSE))
           [] type = TT_EXP ->
                IF b.den # 1 THEN RefNone("out")
                ELSE IF b.num >= 0 THEN RefVal(PowNat(a, b.num))
                ELSE IF a.num = 0 THEN RefNone("undef")
                ELSE LET r == PowNat(a, -b.num)
                     IN IF InRange(r) THEN RefVal(Rat(r.den, r.num, FALSE)) ELSE RefNone("out")

RECURSIVE RefEval(_)
RefEval(ts) ==
    LET n == Len(ts)
        adds == RefTop(ts, {TT_PLUS, TT_MINUS})
        muls == RefTop(ts, {TT_MULT, TT_DIV})
        exps == RefTop(ts, {TT_EXP})
        split(i) == RefApply(ts[i].type, RefEval(SubSeq(ts, 1, i - 1)),
                             RefEval(SubSeq(ts, i + 1, n)))
    IN IF n = 0 \/ ~RefBalanced(ts) THEN RefNone("invalid")
       ELSE IF adds # {} THEN split(SetMax(adds))
       ELSE IF muls # {} THEN split(SetMax(muls))
       ELSE IF ts[1].type = TT_PLUS THEN RefEval(Tail(ts))
       ELSE IF ts[1].type = TT_MINUS
       THEN RefApply(TT_MULT, RefEval(Tail(ts)), RefVal(Rat(-1, 1, FALSE)))
       ELSE IF exps # {} THEN split(SetMin(exps))
       ELSE IF n = 1 /\ ts[1].type \in {TT_INT, TT_FLOAT} THEN RefVal(ts[1].value)
       ELSE IF ts[1].type = TT_LPAREN /\ ts[n].type = TT_RPAREN
       THEN RefEval(SubSeq(ts, 2, n - 1))
       ELSE RefNone("invalid")

\* run has ended, one way or another
Ended == pc \in {"done", "shown", "raised", "unmodelled"}
\* make_tokens returned a token sequence (and no error)
Tokenized == pc # "lex" /\ tokens # <<>>
\* the tokens before the EOF token
Body == SubSeq(tokens, 1, Len(tokens) - 1)
HasValue == result.value.den # 0
HasError == IsError(result.error)

----------------------------------------------------------------------------
(* C1: every call of run returns a pair (result, error) with exactly one of *)
(* the two present, and never ends another way (such as an uncaught         *)
(* arithmetic fault).  The code lets Python's ZeroDivisionError escape from *)
(* Number.powerd_by.                                                        *)
C1_ExactlyOneOfResultError ==
    pc \in {"done", "shown", "raised"} =>
        /\ result.raised = "None"
        /\ HasValue # HasError

(* C2: for every valid arithmetic expression of integer literals, + - * /   *)
(* ^, unary signs and parentheses (valid: the reference evaluator gives it  *)
(* a value), run returns a result and no error, and the result's magnitude  *)
(* is the reference evaluator's.                                            *)
IntegerOnly == \A i \in 1..Len(tokens) : tokens[i].type # TT_FLOAT
C2_ValueMatchesReference ==
    (Ended /\ Tokenized /\ IntegerOnly /\ RefEval(Body).kind = "val") =>
        /\ pc = "done"
        /\ HasValue /\ ~HasError /\ result.raised = "None"
        /\ result.value.num = RefEval(Body).num
        /\ result.value.den = RefEval(Body).den
\* 2^3^2 has been evaluated to 512 from a tree whose '^' nests to the right
C2_Witness ==
    /\ pc = "done" /\ IntegerOnly /\ RefEval(Body).kind = "val"
    /\ ast.node.kind = "BinaryOpNode"
    /\ ast.node.op_token.type = TT_EXP
    /\ ast.node.right_node.kind = "BinaryOpNode"
    /\ result.value.num = 512

(* C3: whenever evaluation performs a division whose right operand has      *)
(* magnitude 0, run returns no result and a RuntimeError "Division by Zero" *)
(* whose span is exactly the source span of that right operand, wherever    *)
(* the division stands in the text.  In the code the end of a number token  *)
(* and the start of an operator token are the lexer's own Position object,  *)
(* so the span read from the error reaches to the end of the text.          *)
TokIndex(tok) == CHOOSE i \in 1..Len(tokens) : tokens[i] = tok
\* the offsets of the first character of a node and one past its last
RECURSIVE SourceStart(_), SourceEnd(_)
SourceStart(node) ==
    CASE node.kind = "NumberNode" -> consumed[TokIndex(node.tok)].first
      [] node.kind = "UnaryOpNode" -> consumed[TokIndex(node.op_token)].first
      [] node.kind = "BinaryOpNode" -> SourceStart(node.left_node)
SourceEnd(node) ==
    CASE node.kind = "NumberNode" -> consumed[TokIndex(node.tok)].last + 1
      [] node.kind = "UnaryOpNode" -> SourceEnd(node.node)
      [] node.kind = "BinaryOpNode" -> SourceEnd(node.right_node)
\* the right operand of the first division by zero that evaluation performs
RECURSIVE ZeroDivisor(_)
ZeroDivisor(node) ==
    CASE node.kind = "NumberNode" -> NoNode
      [] node.kind = "UnaryOpNode" -> ZeroDivisor(node.node)
      [] node.kind = "BinaryOpNode" ->
           LET l == ZeroDivisor(node.left_node) IN
           IF l.kind # "None" THEN l
           ELSE LET r == ZeroDivisor(node.right_node) IN
           IF r.kind # "None" THEN r
           ELSE IF /\ node.op_token.type = TT_DIV
                   /\ LET v == visit(node.right_node, ProgramContext)
                      IN v.raised = "None" /\ ~IsError(v.error) /\ v.value.num = 0
                THEN node.right_node
                ELSE NoNode
C3_DivisionByZeroSpan ==
    (pc \in {"done", "shown"} /\ Tokenized /\ ~IsError(ast.error)
       /\ ZeroDivisor(ast.node).kind # "None") =>
        /\ ~HasValue
        /\ result.error.kind = "Runtime Error"
        /\ result.error.details = "Division by Zero"
        /\ Deref(result.error.pos_start).ind = SourceStart(ZeroDivisor(ast.node))
        /\ Deref(result.error.pos_end).ind = SourceEnd(ZeroDivisor(ast.node))

(* C4: whenever atom has consumed '(' and parsed the inner expression but   *)
(* the current token is not ')', parsing fails with IllegalSyntax           *)
(* "Expected ')'" anchored at the unconsumed token, and run returns that    *)
(* diagnostic (so for "(2+3").  Stated for every text that is '(' followed  *)
(* by an expression and the end of the text.  In the code the failure is    *)
(* not returned, and the fall-through return replaces it.                   *)
OpenParenThenExpression ==
    /\ Tokenized
    /\ Len(tokens) >= 3
    /\ tokens[1].type = TT_LPAREN
    /\ RefEval(SubSeq(tokens, 2, Len(tokens) - 1)).kind # "invalid"
C4_ExpectedRParen ==
    (pc \in {"done", "shown"} /\ OpenParenThenExpression) =>
        /\ ~HasValue
        /\ result.error.kind = "Illegal Syntax"
        /\ result.error.details = "Expected ')'"
        /\ result.error.pos_end = tokens[Len(tokens)].pos_end

(* C5: if scanning reaches a character that is not a space, tab, digit or   *)
(* one of + - * / ^ ( ), tokenize halts at once and returns an empty token  *)
(* sequence with an IllegalCharacter diagnostic whose span is exactly that  *)
(* character, the first such in the text; no token scanned before it is     *)
(* returned and nothing is parsed or evaluated.                             *)
Allowed == {" ", "\t"} \cup DIGITS \cup OpChars
Foreign == {i \in 0..(Len(text) - 1) : text[i + 1] \notin Allowed}
IllegalCharacterAt(i) ==
    /\ pc \in {"done", "shown"}
    /\ tokens = <<>>
    /\ ~HasValue
    /\ result.error.kind = "Illegal Charecter"
    /\ result.error.details = text[i + 1]
    /\ Deref(result.error.pos_start).ind = i
    /\ Deref(result.error.pos_end).ind = i + 1
    /\ pos.ind = i + 1
    /\ ast = NoAst /\ tok_ind = -1 /\ advances = 0
\* C5 as claimed: any character outside the set halts the scan
C5_AnyForeignCharacterHalts ==
    (pc # "lex" /\ Foreign # {}) => IllegalCharacterAt(SetMin(Foreign))
\* a '.' that directly follows the digits of a literal that has no '.' yet:
\* the digits before it are not themselves preceded by a '.'
DigitRunStart(i) ==
    SetMin({j \in 0..i : \A k \in j..(i - 1) : text[k + 1] \in DIGITS})
LiteralPoint(i) ==
    /\ text[i + 1] = "."
    /\ i >= 1
    /\ text[i] \in DIGITS
    /\ DigitRunStart(i) = 0 \/ text[DigitRunStart(i)] # "."
Stray == {i \in Foreign : ~LiteralPoint(i)}
(* C5, amended: the same, for the first character outside the set that is   *)
(* not the '.' of a numeric literal (a '.' directly after the digits of a   *)
(* literal that has no '.' yet is consumed by make_number).                 *)
C5_StrayCharacterHalts ==
    (pc # "lex" /\ Stray # {}) => IllegalCharacterAt(SetMin(Stray))
\* an error has been returned for a character that follows a literal's '.'
\* and at least one scanned token
C5_Witness ==
    /\ pc = "shown"
    /\ Stray # {} /\ Foreign # Stray
    /\ SetMin(Foreign) < SetMin(Stray)
    /\ IllegalCharacterAt(SetMin(Stray))

(* C6: in the tokens of a successful tokenize, every token but EndOfInput   *)
(* spans from the offset of its first consumed character to one past its    *)
(* last (start < end, successive spans do not overlap), EndOfInput is a     *)
(* zero-width point at the end of the text, and the spans are the same      *)
(* after tokenization as when each token was created.  In the code a token  *)
(* keeps the lexer's own Position object, which moves on.                   *)
C6_TokenSpans ==
    Tokenized =>
        \A i \in 1..Len(tokens) :
            LET sp == SpanOf(tokens[i]) IN
            /\ sp = created[i]
            /\ IF tokens[i].type = TT_EOF
               THEN sp.start = sp.end /\ sp.start = Len(text)
               ELSE /\ sp.start = consumed[i].first
                    /\ sp.end = consumed[i].last + 1
                    /\ sp.start < sp.end
                    /\ i > 1 => SpanOf(tokens[i - 1]).end <= sp.start

(* C7: for a single-line span from column c0 to column c1 (also c1 <= c0)   *)
(* the caret line of the excerpt is c0 spaces and max(1, c1 - c0) carets,   *)
(* in particular for the diagnostics run returns.  arrow_string emits       *)
(* c1 - c0 carets, none for a degenerate span.                              *)
CaretLine(ex) ==
    LET nl == {k \in 1..Len(ex) : ex[k] = "\n"}
    IN IF nl = {} THEN ex ELSE SubSeq(ex, SetMax(nl) + 1, Len(ex))
C7_CaretLine ==
    (pc = "shown" /\ Deref(result.error.pos_start).ln = Deref(result.error.pos_end).ln) =>
        LET c0 == Deref(result.error.pos_start).col
            c1 == Deref(result.error.pos_end).col
        IN CaretLine(shown.excerpt) = Repeat(" ", c0) \o Repeat("^", Max(1, c1 - c0))

(* C8: for a RuntimeError whose context chain has n >= 1 frames the         *)
(* traceback is the header and exactly n frame lines, outermost first: the  *)
(* root context first, the context of the fault last.  generate_traceback   *)
(* appends "line + res" to res, which doubles what was built so far.        *)
C8_TracebackOrder ==
    (pc = "shown" /\ result.error.kind = "Runtime Error"
       /\ Len(result.error.context) >= 1) =>
        LET ctx == result.error.context
            n == Len(ctx)
        IN /\ shown.header = "Traceback (most recent call last):"
           /\ Len(shown.traceback) = n
           /\ \A k \in 1..n : shown.traceback[k].name = ctx[n + 1 - k].display_name

(* C9: whenever the lexer, outside a numeric literal, reaches a digit or a  *)
(* '.', it starts a numeric literal: the following digits and at most one   *)
(* '.', a Float token if a '.' was consumed and an Int token otherwise, a   *)
(* second '.' ending the literal unconsumed.                                *)
Points(i, e) == Cardinality({k \in i..(e - 1) : CharAt(k) = "."})
\* the characters at offsets i..e-1 are a literal and the scan stops at e
LiteralUpTo(i, e) ==
    /\ e > i
    /\ \A k \in i..(e - 1) : CharAt(k) \in DIGITS \cup {"."}
    /\ Points(i, e) <= 1
    /\ \/ CharAt(e) \notin DIGITS \cup {"."}
       \/ CharAt(e) = "." /\ Points(i, e) = 1
StartsLiteral ==
    /\ pc' = "lex"
    /\ ~IsError(result'.error)
    /\ Len(tokens') = Len(tokens) + 1
    /\ SubSeq(tokens', 1, Len(tokens)) = tokens
    /\ LiteralUpTo(pos.ind, pos'.ind)
    /\ current_char' = CharAt(pos'.ind)
    /\ tokens'[Len(tokens')].type =
         IF Points(pos.ind, pos'.ind) = 1 THEN TT_FLOAT ELSE TT_INT
\* C9 as claimed: a digit or a '.' starts a literal
C9_DigitOrPointStartsLiteral ==
    [][(pc = "lex" /\ current_char \in DIGITS \cup {"."}) => StartsLiteral]_vars
(* C9, amended: outside a numeric literal a digit starts a literal (digits  *)
(* and at most one '.', Float if a '.' was consumed, else Int, a second '.' *)
(* left unconsumed); a '.' reached outside a literal starts none and is an  *)
(* illegal character, so ".5" gives an IllegalCharacter error.              *)
C9_DigitStartsLiteral ==
    [][/\ (pc = "lex" /\ current_char \in DIGITS) => StartsLiteral
       /\ (pc = "lex" /\ current_char = ".") =>
             /\ pc' = "done"
             /\ tokens' = <<>>
             /\ result'.error.kind = "Illegal Charecter"
             /\ result'.error.details = "."]_vars
\* a Float literal has been scanned and its second '.' is left as the current character
C9_Witness ==
    /\ pc = "lex"
    /\ tokens # <<>>
    /\ tokens[Len(tokens)].type = TT_FLOAT
    /\ current_char = "."
    /\ pos.ind >= 3

(* C10: for the tokens of a successful tokenize (exactly one EndOfInput, in *)
(* last position), throughout Parser.parse 0 <= tok_ind <= len(tokens) - 1  *)
(* and current_tok = tokens[tok_ind]; the parser never advances past        *)
(* EndOfInput, every advance increases tok_ind, and parse ends after at     *)
(* most len(tokens) - 1 advances with a node or an error.                   *)
CursorInRange ==
    (Tokenized /\ pc # "parser_new") =>
        /\ tokens[Len(tokens)].type = TT_EOF
        /\ \A i \in 1..(Len(tokens) - 1) : tokens[i].type # TT_EOF
        /\ 0 <= tok_ind /\ tok_ind <= Len(tokens) - 1
        /\ current_tok = tokens[tok_ind + 1]
        /\ advances <= Len(tokens) - 1
AdvanceIncreases == advances' # advances => (advances' = advances + 1 /\ tok_ind' > tok_ind)
ReturnsNodeOrError ==
    (pc = "parse" /\ pc' # "parse") => (IsError(ast'.error) \/ ast'.node.kind # "None")
C10_ParserCursor ==
    [](CursorInRange) /\ [][AdvanceIncreases /\ ReturnsNodeOrError]_vars
\* the parser has advanced over every token and stands on EndOfInput
C10_Witness ==
    /\ pc = "parse"
    /\ Len(tokens) >= 4
    /\ advances = Len(tokens) - 1
    /\ current_tok.type = TT_EOF

====
